---------------------------- MODULE Spec2Model ----------------------------
(***************************************************************************)
(* A model of the user-space TCP stack of OmarAlraisi/tcp:                 *)
(*   src/src/tcp.rs  - Connection (sequence spaces, accept, on_packet,     *)
(*                     write) and the wrapping range predicates,           *)
(*   src/src/lib.rs  - ConnectionManager, packet_loop, Tcp::bind,          *)
(*                     TcpListener::accept, TcpStream::read / write.       *)
(*                                                                         *)
(* Representation of u32.  TLC integers are 32-bit signed, so a u32 value  *)
(* is held as the signed integer with the same 32 bits: 0 .. 2^31-1 are    *)
(* themselves and 0x80000000 .. 0xFFFFFFFF are -2^31 .. -1 (0xFFFFFFFF is  *)
(* -1, 0xFFFFFF00 is -256).  wrapping_add / wrapping_sub and the unsigned  *)
(* comparisons below are exact for the full 32-bit width.                  *)
(*                                                                         *)
(* The tunnel device and the header codec are outside the repository:      *)
(* nic.send is taken to succeed and hands the frame to `sent`.             *)
(***************************************************************************)
EXTENDS Integers, Sequences, FiniteSets, TLC

(***************************************************************************)
(* Bounds of the model.                                                    *)
(***************************************************************************)
\* frames the packet thread reads from the tunnel in one run
MaxFrames == 3
\* capacity of the ring allocation behind a connection's inbuf (VecDeque)
RingCap == 2
\* bytes the user may have queued in a connection's outbuf
MaxOutbuf == 1

(***************************************************************************)
(* Program constants.                                                      *)
(***************************************************************************)
\* tcp.rs:291  let iss = 0;
ISS == 0
\* tcp.rs:155  let mut buf = [0u8; 1500];
MTU == 1500
\* etherparse: Ipv4Header::header_len() and TcpHeader::header_len() without options
HEADER_LEN == 20

(***************************************************************************)
(* 32-bit unsigned arithmetic (see the representation note above).         *)
(***************************************************************************)
I32Max == 2147483646 + 1
I32Min == (-I32Max) - 1

\* u32::wrapping_add(a, k), 0 <= k <= I32Max
wrapping_add(a, k) ==
    IF a > I32Max - k THEN I32Min + ((a - (I32Max - k)) - 1) ELSE a + k

\* u32::wrapping_sub(a, k), 0 <= k <= I32Max
wrapping_sub(a, k) ==
    IF a < I32Min + k THEN I32Max - (((I32Min + k) - a) - 1) ELSE a - k

\* a < b on u32
ULt(a, b) == IF (a < 0) = (b < 0) THEN a < b ELSE a >= 0

\* a <= b on u32
ULe(a, b) == a = b \/ ULt(a, b)

\* 0xFFFFFFFF, the largest u32
U32Max == wrapping_sub(0, 1)

Min2(a, b) == IF a <= b THEN a ELSE b

\* the one element of a singleton set
Only(S) == CHOOSE x \in S : TRUE

(***************************************************************************)
(* tcp.rs:619-633  the range predicates.                                   *)
(***************************************************************************)
\* mutant: the comparison of a range that does not wrap, for every range
is_in_range_no_wrap(start, x, end) ==
    IF start = end THEN FALSE
    ELSE ULt(start, x) /\ ULt(x, end)

is_in_range_wrap(start, x, end) ==
    IF start = end THEN FALSE
    ELSE IF ULt(start, end) THEN ULt(start, x) /\ ULt(x, end)
    ELSE ULt(x, end) \/ ULt(start, x)

is_duplicate(una, ack, nxt) ==
    IF una = nxt THEN TRUE
    ELSE IF ULt(una, nxt) THEN ULt(ack, una)
    ELSE ULt(nxt, ack) /\ ULt(ack, una)

(***************************************************************************)
(* tcp.rs:55-90  state predicates of a Connection.                         *)
(***************************************************************************)
States == {"SynRcvd", "SynSent", "Estab", "FinWait1", "FinWait2",
           "CloseWait", "Closing", "TimeWait", "LastAck", "Closed"}

is_recv_closed(c) == c.state \in {"TimeWait", "CloseWait", "Closing"}

\* mutant: the state before the last one is taken for the closed one
is_closed_last_ack(c) == c.state = "LastAck"

is_closed(c) == c.state = "Closed"

is_established(c) == c.state \notin {"Closed", "SynRcvd", "SynSent"}

availability(c) ==
    IF is_recv_closed(c) \/ c.inbuf.elems # <<>> THEN {"READ"} ELSE {}

(***************************************************************************)
(* inbuf is a VecDeque<u8>: `elems` are its bytes in queue order and       *)
(* `head` is the physical index of the first one in a ring of RingCap      *)
(* slots.  as_slices() returns the bytes up to the end of the ring and the *)
(* bytes that wrapped to its start.                                        *)
(***************************************************************************)
EmptyDeque == [head |-> 0, elems |-> <<>>]

\* VecDeque::as_slices
as_slices(d) ==
    LET n == Min2(Len(d.elems), RingCap - d.head)
    IN  [head |-> SubSeq(d.elems, 1, n),
         tail |-> SubSeq(d.elems, n + 1, Len(d.elems))]

\* VecDeque::drain(..n) dropped at once: the first n bytes leave the queue
drain(d, n) ==
    IF n = Len(d.elems) THEN EmptyDeque
    ELSE [head |-> (d.head + n) % RingCap,
          elems |-> SubSeq(d.elems, n + 1, Len(d.elems))]

\* io::Write::write_all for VecDeque<u8>: the bytes are pushed at the back
write_all(d, bytes) == [d EXCEPT !.elems = d.elems \o bytes]

(***************************************************************************)
(* tcp.rs:268-277  reset_tcphdr_flags.  Of the cached header only the      *)
(* flags the code ever sets (syn, ack, fin) and the window are kept.       *)
(***************************************************************************)
reset_tcphdr_flags(c) ==
    [c EXCEPT !.tcphdr.syn = FALSE, !.tcphdr.ack = FALSE, !.tcphdr.fin = FALSE]

(***************************************************************************)
(* tcp.rs:153-202  Connection::write: forces ACK on, stamps seq = SND.NXT  *)
(* and ack = RCV.NXT, sends header + payload (cut to the room left in the  *)
(* 1500-byte frame) and advances SND.NXT.  Returns the connection, the     *)
(* segment put on the tunnel and the number of payload bytes written.      *)
(***************************************************************************)
write(c, payload) ==
    LET payload_bytes == Min2(Len(payload), MTU - (2 * HEADER_LEN))
        seg == [syn |-> c.tcphdr.syn, ack |-> TRUE, fin |-> c.tcphdr.fin,
                seq |-> c.send.nxt, ackn |-> c.recv.nxt,
                wnd |-> c.tcphdr.window_size,
                payload |-> SubSeq(payload, 1, payload_bytes)]
        adv == payload_bytes + (IF c.tcphdr.syn \/ c.tcphdr.fin THEN 1 ELSE 0)
    IN  [conn |-> [c EXCEPT !.tcphdr.ack = TRUE,
                            !.send.nxt = wrapping_add(c.send.nxt, adv)],
         seg |-> seg,
         n |-> payload_bytes]

(***************************************************************************)
(* Segments.  A received segment carries the flags the code reads, SEG.SEQ,*)
(* SEG.ACK, SEG.WND and its payload.                                       *)
(***************************************************************************)
Flags(syn, ack, fin, psh, rst) ==
    [syn |-> syn, ack |-> ack, fin |-> fin, psh |-> psh, rst |-> rst]

\* tcp.rs:339  SEG.LEN
seg_len(seg) == Len(seg.payload) + (IF seg.syn \/ seg.fin THEN 1 ELSE 0)

(***************************************************************************)
(* tcp.rs:280-327  Connection::accept.  `tcphdr.sequence_number() + 1` on  *)
(* line 305 is a plain u32 addition: for SEG.SEQ = 0xFFFFFFFF it panics in *)
(* a build with overflow checks and wraps to 0 in one without.  The result *)
(* is "None", "Panic" or the new connection with the SYN+ACK it sent.      *)
(* panic_on_overflow says which of the two the build does.                 *)
(***************************************************************************)
accept(seg, panic_on_overflow) ==
    IF ~seg.syn THEN [kind |-> "None"]
    ELSE IF seg.seq = U32Max /\ panic_on_overflow THEN [kind |-> "Panic"]
    ELSE
      LET connection ==
            [state |-> "SynRcvd",
             send |-> [iss |-> ISS, una |-> ISS, nxt |-> ISS, wnd |-> seg.wnd,
                       wl1 |-> 0, wl2 |-> 0],
             recv |-> [nxt |-> wrapping_add(seg.seq, 1), wnd |-> seg.wnd,
                       irs |-> seg.seq],
             tcphdr |-> [syn |-> TRUE, ack |-> TRUE, fin |-> FALSE,
                         window_size |-> seg.wnd],
             inbuf |-> EmptyDeque,
             outbuf |-> <<>>]
          w == Only({write(connection, <<>>)})
      IN  [kind |-> "Some", conn |-> w.conn, sent |-> <<w.seg>>]

(***************************************************************************)
(* tcp.rs:527-574  Connection::establish_connection (no segment is sent).  *)
(***************************************************************************)
establish_connection ==
    [state |-> "SynSent",
     send |-> [iss |-> ISS, una |-> 0, nxt |-> ISS + 1, wnd |-> 0,
               wl1 |-> 0, wl2 |-> 0],
     recv |-> [nxt |-> 0, wnd |-> 0, irs |-> 0],
     tcphdr |-> [syn |-> TRUE, ack |-> FALSE, fin |-> FALSE, window_size |-> 0],
     inbuf |-> EmptyDeque,
     outbuf |-> <<>>]

(***************************************************************************)
(* tcp.rs:329-525  Connection::on_packet, in the order of the code.  Each  *)
(* part returns [conn, sent, avail]: the connection afterwards, the        *)
(* segments handed to the tunnel and the availability reported.            *)
(***************************************************************************)
Return(c, sent) == [conn |-> c, sent |-> sent, avail |-> availability(c)]

\* mutant: the (_, 0) arm of the match falls through instead of returning
segment_acceptable_zero_window(c, seg) ==
    LET len == seg_len(seg)
        lo == wrapping_sub(c.recv.nxt, 1)
        hi == wrapping_add(c.recv.nxt, c.recv.wnd)
    IN  IF len = 0 /\ c.recv.wnd = 0 THEN seg.seq = c.recv.nxt
        ELSE IF len = 0 THEN is_in_range_wrap(lo, seg.seq, hi)
        ELSE IF c.recv.wnd = 0 THEN TRUE
        ELSE /\ is_in_range_wrap(lo, seg.seq, hi)
             /\ is_in_range_wrap(lo, wrapping_add(seg.seq, len - 1), hi)

\* tcp.rs:366-403  the acceptability test (the match on (seg_len, recv.wnd))
segment_acceptable(c, seg) ==
    LET len == seg_len(seg)
        lo == wrapping_sub(c.recv.nxt, 1)
        hi == wrapping_add(c.recv.nxt, c.recv.wnd)
    IN  IF len = 0 /\ c.recv.wnd = 0 THEN seg.seq = c.recv.nxt
        ELSE IF len = 0 THEN is_in_range_wrap(lo, seg.seq, hi)
        ELSE IF c.recv.wnd = 0 THEN FALSE
        ELSE /\ is_in_range_wrap(lo, seg.seq, hi)
             /\ is_in_range_wrap(lo, wrapping_add(seg.seq, len - 1), hi)

\* tcp.rs:340-365  the SynSent branch
on_packet_syn_sent(c, seg) ==
    IF /\ ~is_in_range_wrap(c.send.iss, seg.ackn, wrapping_add(c.send.nxt, 1))
       /\ ~is_in_range_wrap(wrapping_add(c.send.una, 1), seg.ackn,
                            wrapping_add(c.send.nxt, 1))
    THEN Return(c, <<>>)
    ELSE IF ~seg.syn THEN Return(c, <<>>)
    ELSE
      LET c1 == [c EXCEPT !.recv.nxt = wrapping_add(seg.seq, 1),
                          !.recv.irs = seg.seq,
                          !.send.una = seg.ackn,
                          !.state = "Estab"]
          w == Only({write(reset_tcphdr_flags(c1), seg.payload)})
      IN  Return(w.conn, <<w.seg>>)

\* tcp.rs:474-476
fin_wait1(c) == IF c.state = "FinWait1" THEN [c EXCEPT !.state = "FinWait2"] ELSE c

\* tcp.rs:477-481
fin_wait2(c, seg) ==
    IF c.state = "FinWait2" /\ seg.fin THEN [c EXCEPT !.state = "TimeWait"] ELSE c

\* tcp.rs:483-487
closing(c, seg) ==
    IF c.state = "Closing" /\ seg.ackn = c.send.nxt
    THEN [c EXCEPT !.state = "TimeWait"] ELSE c

\* tcp.rs:489-493
time_wait(c, seg) ==
    IF c.state = "TimeWait" /\ seg.fin
    THEN [c EXCEPT !.recv.nxt = wrapping_add(c.recv.nxt, 1)] ELSE c

\* tcp.rs:497-506  FIN and text in Estab; both ifs are inside the block
\* entered in Estab, so the payload is appended after a FIN as well
estab(c, seg) ==
    IF c.state = "Estab"
    THEN [c EXCEPT
            !.recv.nxt = IF seg.fin THEN wrapping_add(c.recv.nxt, 1) ELSE @,
            !.state = IF seg.fin THEN "CloseWait" ELSE @,
            !.inbuf = IF seg.psh THEN write_all(@, seg.payload) ELSE @]
    ELSE c

\* tcp.rs:508-513
close_wait(c) ==
    IF c.state = "CloseWait" /\ c.outbuf = <<>>
    THEN [c EXCEPT !.tcphdr.fin = TRUE, !.state = "LastAck"] ELSE c

\* tcp.rs:515-517
last_ack(c) == IF c.state = "LastAck" THEN [c EXCEPT !.state = "Closed"] ELSE c

\* tcp.rs:519-524  the emission, then RCV.NXT
emit(c, seg) ==
    LET w == Only({write(c, seg.payload)})
    IN  Return([w.conn EXCEPT !.recv.nxt =
                   wrapping_add(wrapping_add(seg.seq, w.n),
                                IF seg.fin \/ seg.syn THEN 1 ELSE 0)],
               <<w.seg>>)

\* tcp.rs:474-524  state transitions, text and FIN processing, the emission
on_packet_tail(c, seg) ==
    Only({emit(c8, seg) :
      c8 \in {last_ack(c7) :
        c7 \in {close_wait(c6) :
          c6 \in {estab(c5, seg) :
            c5 \in {reset_tcphdr_flags(c4) :
              c4 \in {time_wait(c3, seg) :
                c3 \in {closing(c2, seg) :
                  c2 \in {fin_wait2(c1, seg) :
                    c1 \in {fin_wait1(c)}}}}}}}}})

\* tcp.rs:440-472  ACK processing in Estab, FinWait1, FinWait2, CloseWait, Closing
ack_update(c, seg) ==
    IF \/ ULt(c.send.wl1, seg.seq)
       \/ (c.send.wl1 = seg.seq /\ ULe(c.send.wl2, seg.ackn))
    THEN [c EXCEPT !.send.una = seg.ackn, !.send.wnd = seg.wnd,
                   !.send.wl1 = seg.seq, !.send.wl2 = seg.ackn]
    ELSE [c EXCEPT !.send.una = seg.ackn]

on_packet_ack(c, seg) ==
    IF c.state \in {"Estab", "FinWait1", "FinWait2", "CloseWait", "Closing"}
    THEN IF is_in_range_wrap(c.send.una, seg.ackn, wrapping_add(c.send.nxt, 1))
         THEN on_packet_tail(ack_update(c, seg), seg)
         ELSE IF /\ c.state # "FinWait2"
                 /\ ~is_duplicate(c.send.una, seg.ackn, c.send.nxt)
              THEN LET w == Only({write(c, <<>>)}) IN Return(w.conn, <<w.seg>>)
              ELSE on_packet_tail(c, seg)
    ELSE on_packet_tail(c, seg)

on_packet(c, seg) ==
    IF c.state = "SynSent" THEN on_packet_syn_sent(c, seg)
    ELSE IF ~segment_acceptable(c, seg) THEN Return(c, <<>>)
    \* 411-418  a SYN in the window: nothing is done
    ELSE IF seg.syn THEN Return(c, <<>>)
    \* 421-423  no ACK: dropped
    ELSE IF ~seg.ack THEN Return(c, <<>>)
    \* 425-438  SynRcvd -> Estab
    ELSE IF c.state = "SynRcvd"
         THEN IF is_in_range_wrap(wrapping_sub(c.send.una, 1), seg.ackn,
                                  wrapping_add(c.send.nxt, 1))
              THEN on_packet_ack([c EXCEPT !.state = "Estab"], seg)
              ELSE Return(c, <<>>)
    ELSE on_packet_ack(c, seg)

(***************************************************************************)
(* The inputs of the model: ports, peers, the segments the tunnel may      *)
(* deliver and the buffers users pass in.                                  *)
(***************************************************************************)
Ports == {8080}
Remotes == {"a"}
\* lib.rs:20-23, 116-119  Quad: the local port and the remote endpoint
Quads == [port : Ports, remote : Remotes]
\* lib.rs:231  the local port of every connection opened by connect
ConnectPort == 9182
\* lib.rs:230-233  the Quad connect builds for a remote address
ConnectQuad(remote) == [port |-> ConnectPort, remote |-> remote]
ConnectQuads == {ConnectQuad(r) : r \in Remotes}
Threads == {"t1"}

Seg(flags, seq, ackn, wnd, payload) ==
    [syn |-> flags.syn, ack |-> flags.ack, fin |-> flags.fin, psh |-> flags.psh,
     rst |-> flags.rst, seq |-> seq, ackn |-> ackn, wnd |-> wnd,
     payload |-> payload]

SYN == Flags(TRUE, FALSE, FALSE, FALSE, FALSE)
ACK == Flags(FALSE, TRUE, FALSE, FALSE, FALSE)
ACK_PSH == Flags(FALSE, TRUE, FALSE, TRUE, FALSE)
ACK_FIN == Flags(FALSE, TRUE, TRUE, FALSE, FALSE)
ACK_RST == Flags(FALSE, TRUE, FALSE, FALSE, TRUE)
PSH == Flags(FALSE, FALSE, FALSE, TRUE, FALSE)

\* SYN segments: the peer's initial sequence number and window
SynSegments ==
    {Seg(SYN, 1000, 0, 8192, <<>>), Seg(SYN, 1000, 0, 0, <<>>),
     Seg(SYN, 1000, 0, 1, <<>>), Seg(SYN, U32Max, 0, 8192, <<>>)}

\* the flags and payload of the segments sent on a connection
SegShapes ==
    {<<ACK, <<>> >>, <<ACK, <<1>> >>, <<ACK_PSH, <<1>> >>, <<ACK_PSH, <<2, 3>> >>,
     <<ACK_FIN, <<>> >>}
SegSeqs == {1001, 1003}
SegAcks == {0, 1, 3}

\* and segments far outside the window, a segment without ACK, an RST, the
\* byte that follows a one-byte segment (acknowledging the byte sent back)
OtherSegments ==
    {Seg(sh[1], s, a, 4096, sh[2]) : sh \in SegShapes, s \in SegSeqs, a \in SegAcks}
    \cup {Seg(ACK_PSH, 20000, 1, 4096, <<1>>), Seg(ACK_RST, 20000, 1, 4096, <<>>),
          Seg(ACK_RST, 1001, 1, 4096, <<>>), Seg(PSH, 1001, 1, 4096, <<1>>),
          Seg(ACK_PSH, 1002, 2, 4096, <<1>>)}

Segments == SynSegments \cup OtherSegments

SYN_ACK == Flags(TRUE, TRUE, FALSE, FALSE, FALSE)

\* the answers of a remote host to an active open: its SYN+ACK with the
\* right and with a wrong acknowledgment number, and an ACK without SYN
ConnectSegments ==
    {Seg(SYN_ACK, 5000, 1, 4096, <<>>), Seg(SYN_ACK, 5000, 7, 4096, <<>>),
     Seg(ACK, 5001, 1, 4096, <<>>)}

\* the frames the tunnel may deliver
SegmentsFor(quad) == IF quad \in ConnectQuads THEN ConnectSegments ELSE Segments

ReadLens == {1, 3}
WriteBufs == {<<9>>}

\* lib.rs:17
TRANSMISSION_QLEN_SIZE == 1500000

(***************************************************************************)
(* State.                                                                  *)
(*   connections, pending, terminate  ConnectionManager (lib.rs:26-30)     *)
(*   poisoned       the manager mutex was held by a thread that panicked   *)
(*   overflow_checks  what is known of the build: "either" until an         *)
(*                  overflowing addition has run, "off" once one wrapped   *)
(*                  (with the checks on the thread panics and is gone)     *)
(*   pkt            where the packet thread is in packet_loop              *)
(*   frame, nframes the frame packet_loop parsed last, and how many so far *)
(*   pre            the connection as on_packet found it for the last frame*)
(*   sent           the segments handed to the tunnel by the last step     *)
(*                  that ran Connection code (a frame handled, a connect)  *)
(*   th, ret        each user thread's blocking call and last return value *)
(*   streams        the Quads of the TcpStream handles that exist          *)
(***************************************************************************)
VARIABLES connections, pending, terminate, poisoned, overflow_checks, pkt, frame,
          nframes, pre, sent, th, ret, streams

vars == <<connections, pending, terminate, poisoned, overflow_checks, pkt, frame,
          nframes, pre, sent, th, ret, streams>>

NoConn == [state |-> "None"]
NoFrame == [quad |-> "none"]
Idle == [pc |-> "idle"]
NoRet == [op |-> "none"]

Remove(f, k) == [x \in DOMAIN f \ {k} |-> f[x]]

\* lib.rs:184  Arc::default(): empty tables; no frame read, no user call made
Init ==
    /\ connections = <<>>
    /\ pending = <<>>
    /\ terminate = FALSE
    /\ poisoned = FALSE
    /\ overflow_checks = "either"
    /\ pkt = "poll"
    /\ frame = NoFrame
    /\ nframes = 0
    /\ pre = NoConn
    /\ sent = <<>>
    /\ th = [t \in Threads |-> Idle]
    /\ ret = NoRet
    /\ streams = {}

(***************************************************************************)
(* lib.rs:70-151  packet_loop, one frame: from the read of the frame to    *)
(* the release of the manager mutex.  The notify that follows the release  *)
(* is the next step of the thread.                                         *)
(***************************************************************************)
PacketRecv ==
    /\ pkt = "poll"
    /\ ~poisoned
    /\ nframes < MaxFrames
    /\ \E quad \in Quads \cup ConnectQuads : \E seg \in SegmentsFor(quad) :
         /\ frame' = [quad |-> quad, seg |-> seg]
         /\ nframes' = nframes + 1
         /\ IF quad \in DOMAIN connections
            THEN \* Entry::Occupied  (lib.rs:121-138)
              \E r \in {on_packet(connections[quad], seg)} :
              /\ Len(r.conn.inbuf.elems) <= RingCap
              /\ pre' = connections[quad]
              /\ sent' = r.sent
              /\ IF is_closed(r.conn)
                 THEN /\ connections' = Remove(connections, quad)
                      /\ pkt' = "poll"
                 ELSE /\ connections' = [connections EXCEPT ![quad] = r.conn]
                      /\ pkt' = IF "READ" \in r.avail THEN "notify_receive"
                                ELSE "poll"
              /\ UNCHANGED <<pending, poisoned, overflow_checks>>
            ELSE IF quad.port \in DOMAIN pending
            THEN \* Entry::Vacant, the port is bound  (lib.rs:139-148)
              \E a \in {accept(seg, b) :
                          b \in IF overflow_checks = "off" THEN {FALSE} ELSE BOOLEAN} :
              /\ pre' = NoConn
              /\ overflow_checks' = IF a.kind = "Some" /\ seg.seq = U32Max
                                    THEN "off" ELSE overflow_checks
              /\ CASE a.kind = "Some" ->
                        /\ connections' = connections @@ (quad :> a.conn)
                        /\ pending' = [pending EXCEPT
                                         ![quad.port] = <<quad>> \o pending[quad.port]]
                        /\ sent' = a.sent
                        /\ pkt' = "notify_pending"
                        /\ UNCHANGED poisoned
                   [] a.kind = "None" ->
                        /\ sent' = <<>>
                        /\ UNCHANGED <<connections, pending, pkt, poisoned>>
                   [] a.kind = "Panic" ->
                        \* the thread unwinds with the guard alive
                        /\ sent' = <<>>
                        /\ poisoned' = TRUE
                        /\ pkt' = "panicked"
                        /\ UNCHANGED <<connections, pending>>
            ELSE /\ pre' = NoConn
                 /\ sent' = <<>>
                 /\ UNCHANGED <<connections, pending, pkt, poisoned, overflow_checks>>
    /\ UNCHANGED <<th, ret, streams>>
    /\ UNCHANGED terminate

\* Condvar::notify_all: every thread waiting in `op` is made ready to run
notify_all(op) ==
    [t \in Threads |-> IF th[t].pc = op THEN [th[t] EXCEPT !.ready = TRUE]
                       ELSE th[t]]

\* lib.rs:132-134  receive_cvar.notify_all()
NotifyReceive ==
    /\ pkt = "notify_receive"
    /\ th' = notify_all("read")
    /\ pkt' = "poll"
    /\ UNCHANGED <<connections, pending, poisoned, overflow_checks, frame,
                   nframes, pre, sent, ret, streams>>
    /\ UNCHANGED terminate

\* lib.rs:145  pending_cvar.notify_all()
NotifyPending ==
    /\ pkt = "notify_pending"
    /\ th' = notify_all("accept")
    /\ pkt' = "poll"
    /\ UNCHANGED <<connections, pending, poisoned, overflow_checks, frame,
                   nframes, pre, sent, ret, streams>>
    /\ UNCHANGED terminate

(***************************************************************************)
(* lib.rs:196-222  Tcp::bind                                               *)
(***************************************************************************)
\* mutant: the queue of the port is inserted whether or not the port is bound
bind_insert(port) ==
    /\ ~poisoned
    /\ ~terminate
    /\ pending' = [p \in DOMAIN pending \cup {port} |->
                     IF p = port THEN <<>> ELSE pending[p]]
    /\ ret' = [op |-> "bind", port |-> port, kind |-> "Ok"]
    /\ UNCHANGED <<connections, poisoned, overflow_checks, pkt, frame, nframes,
                   pre, sent, th, streams>>
    /\ UNCHANGED terminate

Bind(port) ==
    /\ ~poisoned
    /\ ~terminate
    /\ IF port \in DOMAIN pending
       THEN /\ ret' = [op |-> "bind", port |-> port, kind |-> "AddrInUse"]
            /\ UNCHANGED pending
       ELSE /\ pending' = pending @@ (port :> <<>>)
            /\ ret' = [op |-> "bind", port |-> port, kind |-> "Ok"]
    /\ UNCHANGED <<connections, poisoned, overflow_checks, pkt, frame, nframes,
                   pre, sent, th, streams>>
    /\ UNCHANGED terminate

(***************************************************************************)
(* lib.rs:51-68  Drop for Tcp: sets terminate under the mutex, releases    *)
(* the handle and joins the packet thread.  bind and connect need the      *)
(* handle, and a connect in progress borrows it.  packet_loop never reads  *)
(* terminate (lib.rs:88 is a TODO), so the join is over only when the      *)
(* packet thread is gone for another reason.                               *)
(***************************************************************************)
TcpDrop ==
    /\ ~poisoned
    /\ ~terminate
    /\ \A t \in Threads : th[t].pc # "connect"
    /\ terminate' = TRUE
    /\ UNCHANGED <<connections, pending, poisoned, overflow_checks, pkt, frame,
                   nframes, pre, sent, th, ret, streams>>

(***************************************************************************)
(* lib.rs:267-282  Drop for TcpListener: removes the port's queue; for a   *)
(* queued Quad the loop body is `unimplemented!()`, a panic with the       *)
(* manager mutex held.  A listener borrowed by a running accept cannot be  *)
(* dropped.                                                                *)
(***************************************************************************)
ListenerDrop(port) ==
    /\ ~poisoned
    /\ port \in DOMAIN pending
    /\ \A u \in Threads : ~(th[u].pc = "accept" /\ th[u].port = port)
    /\ pending' = Remove(pending, port)
    /\ poisoned' = (pending[port] # <<>>)
    /\ UNCHANGED <<connections, terminate, overflow_checks, pkt, frame, nframes,
                   pre, sent, th, ret, streams>>

(***************************************************************************)
(* lib.rs:225-258  Tcp::connect: builds the connection (no segment is      *)
(* sent, tcp.rs:572), inserts it and loops on is_established with the      *)
(* mutex held, waiting on estab_cvar between checks.  A Quad already in    *)
(* the table fails the assert after the insert replaced its connection:    *)
(* the thread panics with the mutex held.                                  *)
(***************************************************************************)
connect_loop(t, quad, conns) ==
    IF quad \notin DOMAIN conns
    THEN /\ ret' = [op |-> "connect", quad |-> quad, kind |-> "ConnectionAborted"]
         /\ th' = [th EXCEPT ![t] = Idle]
         /\ UNCHANGED streams
    ELSE IF is_established(conns[quad])
    THEN /\ ret' = [op |-> "connect", quad |-> quad, kind |-> "Ok"]
         /\ th' = [th EXCEPT ![t] = Idle]
         /\ streams' = streams \cup {quad}
    ELSE /\ th' = [th EXCEPT ![t] = [pc |-> "connect", quad |-> quad,
                                     ready |-> FALSE]]
         /\ UNCHANGED <<ret, streams>>

Connect(t, remote) ==
    /\ ~poisoned
    /\ ~terminate
    /\ th[t] = Idle
    /\ sent' = <<>>
    /\ LET quad == ConnectQuad(remote) IN
       IF quad \in DOMAIN connections
       THEN /\ connections' = [connections EXCEPT ![quad] = establish_connection]
            /\ poisoned' = TRUE
            /\ th' = [th EXCEPT ![t] = [pc |-> "panicked"]]
            /\ UNCHANGED <<ret, streams>>
       ELSE /\ connections' = connections @@ (quad :> establish_connection)
            /\ connect_loop(t, quad, connections')
            /\ UNCHANGED poisoned
    /\ UNCHANGED <<pending, overflow_checks, pkt, frame, nframes, pre>>
    /\ UNCHANGED terminate

ConnectWake(t) ==
    /\ ~poisoned
    /\ th[t].pc = "connect"
    /\ th[t].ready
    /\ connect_loop(t, th[t].quad, connections)
    /\ UNCHANGED <<connections, pending, poisoned, overflow_checks, pkt, frame,
                   nframes, pre, sent>>
    /\ UNCHANGED terminate

(***************************************************************************)
(* Condvar::wait may return without a notification (a spurious wake-up):   *)
(* a waiting thread may become ready at any time.                          *)
(***************************************************************************)
SpuriousWake(t) ==
    /\ th[t].pc \in {"accept", "read", "connect", "flush"}
    /\ ~th[t].ready
    /\ th' = [th EXCEPT ![t].ready = TRUE]
    /\ UNCHANGED <<connections, pending, poisoned, overflow_checks, pkt, frame,
                   nframes, pre, sent, ret, streams>>
    /\ UNCHANGED terminate

(***************************************************************************)
(* lib.rs:284-300  TcpListener::accept: one pass of the loop with the      *)
(* mutex held, from the call or from a wake-up.                            *)
(***************************************************************************)
accept_loop(t, port) ==
    IF pending[port] # <<>>
    THEN LET quad == pending[port][Len(pending[port])] IN   \* pop_back
         /\ pending' = [pending EXCEPT
                          ![port] = SubSeq(pending[port], 1, Len(pending[port]) - 1)]
         /\ streams' = streams \cup {quad}
         /\ ret' = [op |-> "accept", quad |-> quad]
         /\ th' = [th EXCEPT ![t] = Idle]
    ELSE /\ th' = [th EXCEPT ![t] = [pc |-> "accept", port |-> port, ready |-> FALSE]]
         /\ UNCHANGED <<pending, streams, ret>>

ListenerAccept(t, port) ==
    /\ ~poisoned
    /\ th[t] = Idle
    /\ port \in DOMAIN pending
    /\ \A u \in Threads : ~(th[u].pc = "accept" /\ th[u].port = port)
    /\ accept_loop(t, port)
    /\ UNCHANGED <<connections, poisoned, overflow_checks, pkt, frame, nframes,
                   pre, sent>>
    /\ UNCHANGED terminate

ListenerAcceptWake(t) ==
    /\ ~poisoned
    /\ th[t].pc = "accept"
    /\ th[t].ready
    /\ accept_loop(t, th[t].port)
    /\ UNCHANGED <<connections, poisoned, overflow_checks, pkt, frame, nframes,
                   pre, sent>>
    /\ UNCHANGED terminate

(***************************************************************************)
(* lib.rs:308-343  TcpStream::read with a buffer of len bytes: one pass of *)
(* the loop with the mutex held.  Line 333 copies from `head` where the    *)
(* second slice is meant; when more bytes are wanted from the second slice *)
(* than the first one holds the slice index panics.                        *)
(***************************************************************************)
read_copy(inbuf, len) ==
    LET s == as_slices(inbuf)
        nread == Min2(Len(s.head), len)
        tread == Min2(len - nread, Len(s.tail))
    IN  IF tread > Len(s.head) THEN [kind |-> "Panic"]
        ELSE [kind |-> "Ok", n |-> nread + tread,
              bytes |-> SubSeq(s.head, 1, nread) \o SubSeq(s.head, 1, tread)]

read_loop(t, quad, len) ==
    IF quad \notin DOMAIN connections
    THEN /\ ret' = [op |-> "read", quad |-> quad,
                                       kind |-> "ConnectionAborted"]
         /\ th' = [th EXCEPT ![t] = Idle]
         /\ UNCHANGED <<connections, poisoned>>
    ELSE LET connection == connections[quad] IN
      IF connection.inbuf.elems = <<>> /\ is_recv_closed(connection)
      THEN /\ ret' = [op |-> "read", quad |-> quad,
                                         kind |-> "Ok", n |-> 0, bytes |-> <<>>]
           /\ th' = [th EXCEPT ![t] = Idle]
           /\ UNCHANGED <<connections, poisoned>>
      ELSE IF connection.inbuf.elems # <<>>
      THEN \E r \in {read_copy(connection.inbuf, len)} :
           IF r.kind = "Panic"
           THEN /\ poisoned' = TRUE
                /\ th' = [th EXCEPT ![t] = [pc |-> "panicked"]]
                /\ UNCHANGED <<connections, ret>>
           ELSE /\ connections' = [connections EXCEPT
                                     ![quad].inbuf = drain(connection.inbuf, r.n)]
                /\ ret' = [op |-> "read", quad |-> quad,
                                              kind |-> "Ok", n |-> r.n,
                                              bytes |-> r.bytes]
                /\ th' = [th EXCEPT ![t] = Idle]
                /\ UNCHANGED poisoned
      ELSE /\ th' = [th EXCEPT ![t] = [pc |-> "read", quad |-> quad, len |-> len,
                                       ready |-> FALSE]]
           /\ UNCHANGED <<connections, poisoned, ret>>

\* a TcpStream is used through &mut self: by one call at a time
StreamFree(quad) ==
    \A u \in Threads : ~(th[u].pc \in {"read", "flush"} /\ th[u].quad = quad)

StreamRead(t, quad, len) ==
    /\ ~poisoned
    /\ th[t] = Idle
    /\ quad \in streams
    /\ StreamFree(quad)
    /\ read_loop(t, quad, len)
    /\ UNCHANGED <<pending, overflow_checks, pkt, frame, nframes, pre, sent, streams>>
    /\ UNCHANGED terminate

StreamReadWake(t) ==
    /\ ~poisoned
    /\ th[t].pc = "read"
    /\ th[t].ready
    /\ read_loop(t, th[t].quad, th[t].len)
    /\ UNCHANGED <<pending, overflow_checks, pkt, frame, nframes, pre, sent, streams>>
    /\ UNCHANGED terminate

(***************************************************************************)
(* lib.rs:346-374  TcpStream::write.  The wait on send_cvar needs an       *)
(* outbuf of TRANSMISSION_QLEN_SIZE bytes, beyond MaxOutbuf.               *)
(***************************************************************************)
StreamWrite(t, quad, buf) ==
    /\ ~poisoned
    /\ th[t] = Idle
    /\ quad \in streams
    /\ StreamFree(quad)
    /\ IF quad \notin DOMAIN connections
       THEN /\ ret' = [op |-> "write", quad |-> quad,
                                          kind |-> "ConnectionAborted"]
            /\ UNCHANGED connections
       ELSE LET outbuf == connections[quad].outbuf
                nwrite == Min2(Len(buf), TRANSMISSION_QLEN_SIZE - Len(outbuf))
            IN  /\ Len(outbuf) < TRANSMISSION_QLEN_SIZE
                /\ Len(outbuf) + nwrite <= MaxOutbuf
                /\ connections' = [connections EXCEPT
                                     ![quad].outbuf = outbuf \o SubSeq(buf, 1, nwrite)]
                /\ ret' = [op |-> "write", quad |-> quad,
                                              kind |-> "Ok", n |-> nwrite]
    /\ UNCHANGED <<pending, poisoned, overflow_checks, pkt, frame, nframes, pre,
                   sent, th, streams>>
    /\ UNCHANGED terminate

(***************************************************************************)
(* lib.rs:376-392  TcpStream::flush: one pass of the loop with the mutex   *)
(* held, from the call or from a wake-up; the wait is on send_cvar, which  *)
(* no code notifies (lib.rs:135-137 is a TODO).                            *)
(***************************************************************************)
flush_loop(t, quad) ==
    IF quad \notin DOMAIN connections
    THEN /\ ret' = [op |-> "flush", quad |-> quad, kind |-> "ConnectionAborted"]
         /\ th' = [th EXCEPT ![t] = Idle]
    ELSE IF connections[quad].outbuf = <<>>
    THEN /\ ret' = [op |-> "flush", quad |-> quad, kind |-> "Ok"]
         /\ th' = [th EXCEPT ![t] = Idle]
    ELSE /\ th' = [th EXCEPT ![t] = [pc |-> "flush", quad |-> quad,
                                     ready |-> FALSE]]
         /\ UNCHANGED ret

StreamFlush(t, quad) ==
    /\ ~poisoned
    /\ th[t] = Idle
    /\ quad \in streams
    /\ StreamFree(quad)
    /\ flush_loop(t, quad)
    /\ UNCHANGED <<connections, pending, poisoned, overflow_checks, pkt, frame,
                   nframes, pre, sent, streams>>
    /\ UNCHANGED terminate

StreamFlushWake(t) ==
    /\ ~poisoned
    /\ th[t].pc = "flush"
    /\ th[t].ready
    /\ flush_loop(t, th[t].quad)
    /\ UNCHANGED <<connections, pending, poisoned, overflow_checks, pkt, frame,
                   nframes, pre, sent, streams>>
    /\ UNCHANGED terminate

(***************************************************************************)
(* lib.rs:395-400  TcpStream::shutdown: `unimplemented!()`.  The calling    *)
(* thread panics before it takes the manager mutex.                        *)
(***************************************************************************)
StreamShutdown(t, quad) ==
    /\ th[t] = Idle
    /\ quad \in streams
    /\ StreamFree(quad)
    /\ th' = [th EXCEPT ![t] = [pc |-> "panicked"]]
    /\ ret' = [op |-> "shutdown", quad |-> quad, kind |-> "Panic"]
    /\ UNCHANGED <<connections, pending, poisoned, overflow_checks, pkt, frame,
                   nframes, pre, sent, streams>>
    /\ UNCHANGED terminate

(***************************************************************************)
(* lib.rs:402-408  Drop for TcpStream: takes the manager mutex and         *)
(* releases it; the handle is gone.                                        *)
(***************************************************************************)
StreamDrop(quad) ==
    /\ ~poisoned
    /\ quad \in streams
    /\ StreamFree(quad)
    /\ streams' = streams \ {quad}
    /\ UNCHANGED <<connections, pending, poisoned, overflow_checks, pkt, frame,
                   nframes, pre, sent, th, ret>>
    /\ UNCHANGED terminate

Next ==
    \/ PacketRecv
    \/ NotifyReceive
    \/ NotifyPending
    \/ \E port \in Ports : Bind(port)
    \/ \E t \in Threads, port \in Ports : ListenerAccept(t, port)
    \/ \E t \in Threads : ListenerAcceptWake(t)
    \/ \E t \in Threads, quad \in streams, len \in ReadLens : StreamRead(t, quad, len)
    \/ \E t \in Threads : StreamReadWake(t)
    \/ \E t \in Threads, quad \in streams, buf \in WriteBufs : StreamWrite(t, quad, buf)

\* the passive data path: frames, bind, accept, read and write
Spec == Init /\ [][Next]_vars

\* the whole interface
ApiNext ==
    \/ Next
    \/ \E t \in Threads, quad \in streams : StreamFlush(t, quad)
    \/ \E t \in Threads : StreamFlushWake(t)
    \/ \E t \in Threads, quad \in streams : StreamShutdown(t, quad)
    \/ \E quad \in streams : StreamDrop(quad)
    \/ \E t \in Threads, remote \in Remotes : Connect(t, remote)
    \/ \E t \in Threads : ConnectWake(t)
    \/ \E t \in Threads : SpuriousWake(t)
    \/ TcpDrop
    \/ \E port \in Ports : ListenerDrop(port)

ApiSpec == Init /\ [][ApiNext]_vars

\* the scheduler runs every thread that can take a step; frames arrive as
\* the tunnel delivers them, and a spurious wake-up is never owed
Fairness ==
    /\ WF_vars(NotifyReceive)
    /\ WF_vars(NotifyPending)
    /\ \A t \in Threads :
         /\ WF_vars(ListenerAcceptWake(t))
         /\ WF_vars(StreamReadWake(t))
         /\ WF_vars(ConnectWake(t))
         /\ WF_vars(StreamFlushWake(t))

FairApiSpec == ApiSpec /\ Fairness

FairSpec == Spec /\ Fairness

(***************************************************************************)
(* The sequence-number arithmetic on its own.  Connection::on_packet and   *)
(* is_in_range_wrap are functions of their arguments: here the arguments   *)
(* are drawn at the start, over the whole u32 circle, and one step applies *)
(* the function.  `pre` and `frame` hold the connection and the segment,   *)
(* `connections` the connection on_packet left; `ret` holds the arguments  *)
(* and then the value of is_in_range_wrap.                                 *)
(***************************************************************************)
\* 0xFFFFFF00, 0xFFFFFE00 and 2^31 as u32
Hex_FFFFFF00 == wrapping_sub(0, 256)
Hex_FFFFFE00 == wrapping_sub(0, 512)
Hex_80000000 == I32Min

\* <<SND.UNA, SND.NXT>>: nothing in flight, a few bytes in flight, in flight
\* across 0, SND.NXT at the top of the circle, 2^31 bytes in flight
\* (from SND.UNA = 0 and from SND.UNA = 1), and more than that: 2^31 + 1 and
\* 2^32 - 1
SendWindows ==
    {<<100, 100>>, <<100, 105>>, <<Hex_FFFFFF00, 256>>,
     <<wrapping_sub(U32Max, 1), U32Max>>, <<U32Max, 2>>,
     <<0, Hex_80000000>>, <<1, wrapping_add(Hex_80000000, 1)>>,
     <<0, wrapping_add(Hex_80000000, 1)>>, <<5, 4>>}

\* SEG.ACK: around SND.UNA, around SND.NXT, and fixed points of the circle
AckNumsFor(w) ==
    {wrapping_sub(w[1], 1), w[1], wrapping_add(w[1], 1),
     wrapping_sub(w[2], 1), w[2], wrapping_add(w[2], 1), wrapping_add(w[2], 2),
     0, 80, Hex_80000000, Hex_FFFFFE00, U32Max}

\* tcp.rs:92-151  a synchronized Connection with the given send window
AckConnection(state, w) ==
    [state |-> state,
     send |-> [iss |-> ISS, una |-> w[1], nxt |-> w[2], wnd |-> 4096,
               wl1 |-> 1000, wl2 |-> w[1]],
     recv |-> [nxt |-> 1001, wnd |-> 4096, irs |-> 1000],
     tcphdr |-> [syn |-> FALSE, ack |-> TRUE, fin |-> FALSE,
                 window_size |-> 4096],
     inbuf |-> EmptyDeque,
     outbuf |-> <<>>]

AckStates == {"Estab", "FinWait1", "FinWait2", "CloseWait", "Closing", "LastAck"}

\* ACK segments at RCV.NXT and just before it, bare, with data, with FIN
AckSegmentsFor(w) ==
    {Seg(sh[1], s, a, 4096, sh[2]) :
       sh \in {<<ACK, <<>> >>, <<ACK_PSH, <<1>> >>, <<ACK_FIN, <<>> >>},
       s \in {1000, 1001}, a \in AckNumsFor(w)}

\* the arguments of is_in_range_wrap
RangeNums ==
    {0, 1, 80, 256, 257, I32Max, Hex_80000000, Hex_FFFFFE00, Hex_FFFFFF00, U32Max}

PureInit ==
    /\ connections = <<>>
    /\ pending = <<>>
    /\ terminate = FALSE
    /\ poisoned = FALSE
    /\ overflow_checks = "either"
    /\ pkt = "poll"
    /\ nframes = 0
    /\ sent = <<>>
    /\ th = [t \in Threads |-> Idle]
    /\ streams = {}
    /\ \/ /\ \E state \in AckStates, w \in SendWindows, quad \in Quads :
                /\ pre = AckConnection(state, w)
                /\ \E seg \in AckSegmentsFor(w) : frame = [quad |-> quad, seg |-> seg]
          /\ ret = NoRet
       \/ /\ pre = NoConn
          /\ frame = NoFrame
          /\ \E start \in RangeNums, x \in RangeNums, end \in RangeNums :
                ret = [op |-> "args", start |-> start, x |-> x, end |-> end]

\* tcp.rs:329-525  on_packet applied to the connection and the segment drawn
ApplyOnPacket ==
    /\ frame # NoFrame
    /\ connections = <<>>
    /\ \E r \in {on_packet(pre, frame.seg)} :
         /\ connections' = (frame.quad :> r.conn)
         /\ sent' = r.sent
    /\ UNCHANGED <<pending, terminate, poisoned, overflow_checks, pkt, frame,
                   nframes, pre, th, ret, streams>>

\* tcp.rs:619-625  is_in_range_wrap applied to the arguments drawn
ApplyIsInRangeWrap ==
    /\ ret.op = "args"
    /\ ret' = [op |-> "is_in_range_wrap", start |-> ret.start, x |-> ret.x,
               end |-> ret.end,
               value |-> is_in_range_wrap(ret.start, ret.x, ret.end)]
    /\ UNCHANGED <<connections, pending, terminate, poisoned, overflow_checks,
                   pkt, frame, nframes, pre, sent, th, streams>>

PureNext == ApplyOnPacket \/ ApplyIsInRangeWrap

PureSpec == PureInit /\ [][PureNext]_vars

(***************************************************************************)
(* What the properties below share.  A step of packet_loop is a step that  *)
(* counts a frame; after it `frame` is the frame handled, `pre` the        *)
(* connection on_packet was called on and `sent` what went to the tunnel.  *)
(***************************************************************************)
PacketStep == nframes' = nframes + 1

\* (a - b) mod 2^32 for any two u32
USub(a, b) ==
    IF b >= 0 THEN wrapping_sub(a, b)
    ELSE wrapping_add(wrapping_add(a, -(b + 1)), 1)

\* seq lies in the receive window [RCV.NXT, RCV.NXT + RCV.WND)
InWindow(c, seq) == ULt(USub(seq, c.recv.nxt), c.recv.wnd)

\* the four-case acceptability table, stated on distances from RCV.NXT
Acceptable(c, seg) ==
    LET len == Len(seg.payload) + (IF seg.syn \/ seg.fin THEN 1 ELSE 0)
    IN  IF len = 0 THEN (IF c.recv.wnd = 0 THEN seg.seq = c.recv.nxt
                         ELSE InWindow(c, seg.seq))
        ELSE /\ c.recv.wnd > 0
             /\ InWindow(c, seg.seq)
             /\ InWindow(c, wrapping_add(seg.seq, len - 1))

InQueue(q, queue) == \E i \in 1..Len(queue) : queue[i] = q

(***************************************************************************)
(* C1.  A SYN for a Quad without a connection, to a bound port: exactly    *)
(* one segment is emitted, a SYN+ACK with seq = ISS = 0, ack = SEG.SEQ + 1 *)
(* and the peer's window; a connection in SynRcvd with RCV.IRS = SEG.SEQ,  *)
(* RCV.NXT = SEG.SEQ + 1 and SND.UNA = ISS is inserted under the Quad and  *)
(* the Quad is queued on the port's pending queue.                         *)
(***************************************************************************)
SynAckFor(seg) ==
    [syn |-> TRUE, ack |-> TRUE, fin |-> FALSE, seq |-> 0,
     ackn |-> wrapping_add(seg.seq, 1), wnd |-> seg.wnd, payload |-> <<>>]

PassiveOpenDone(quad, seg) ==
    /\ sent' = <<SynAckFor(seg)>>
    /\ quad \in DOMAIN connections'
    /\ connections'[quad].state = "SynRcvd"
    /\ connections'[quad].recv.irs = seg.seq
    /\ connections'[quad].recv.nxt = wrapping_add(seg.seq, 1)
    /\ connections'[quad].send.una = 0
    /\ InQueue(quad, pending'[quad.port])
    /\ Len(pending'[quad.port]) = Len(pending[quad.port]) + 1

C1_SynOpensConnection ==
    [][(/\ PacketStep
        /\ frame'.seg.syn
        /\ frame'.quad \notin DOMAIN connections
        /\ frame'.quad.port \in DOMAIN pending)
       => PassiveOpenDone(frame'.quad, frame'.seg)]_vars

\* C1 for every SEG.SEQ below 0xFFFFFFFF, where SEG.SEQ + 1 does not overflow
C1_SynOpensConnectionNoOverflow ==
    [][(/\ PacketStep
        /\ frame'.seg.syn
        /\ frame'.seg.seq # U32Max
        /\ frame'.quad \notin DOMAIN connections
        /\ frame'.quad.port \in DOMAIN pending)
       => PassiveOpenDone(frame'.quad, frame'.seg)]_vars

(***************************************************************************)
(* C2.  In SynRcvd an acceptable pure ACK (no payload, no SYN, no FIN)     *)
(* with SEG.ACK = ISS + 1 moves the connection to Estab and emits no       *)
(* segment.                                                                *)
(***************************************************************************)
PureAck(seg) ==
    seg.ack /\ ~seg.syn /\ ~seg.fin /\ ~seg.rst /\ seg.payload = <<>>

C2_HandshakeAckIsSilent ==
    [][(/\ PacketStep
        /\ frame'.quad \in DOMAIN connections
        /\ connections[frame'.quad].state = "SynRcvd"
        /\ PureAck(frame'.seg)
        /\ frame'.seg.ackn = 1
        /\ Acceptable(connections[frame'.quad], frame'.seg))
       => /\ frame'.quad \in DOMAIN connections'
          /\ connections'[frame'.quad].state = "Estab"
          /\ sent' = <<>>]_vars

(***************************************************************************)
(* C3.  A pending queue only holds Quads of connections whose handshake    *)
(* has completed (Estab or later, never SynRcvd), so accept returns a      *)
(* Stream only for such a connection.                                      *)
(***************************************************************************)
C3_PendingOnlyEstablished ==
    \A port \in DOMAIN pending : \A i \in 1..Len(pending[port]) :
        pending[port][i] \in DOMAIN connections
            => connections[pending[port][i]].state # "SynRcvd"

(***************************************************************************)
(* C4.  Passive close takes several segments: an acceptable FIN processed  *)
(* in Estab leaves the connection in the table in CloseWait, with RCV.NXT  *)
(* advanced by 1 and an ACK (without FIN) emitted; the connection is not   *)
(* closed within the processing of the peer's FIN.                         *)
(***************************************************************************)
C4_FinLeavesCloseWait ==
    [][(/\ PacketStep
        /\ frame'.quad \in DOMAIN connections
        /\ connections[frame'.quad].state = "Estab"
        /\ frame'.seg.fin /\ frame'.seg.ack /\ ~frame'.seg.syn
        /\ frame'.seg.payload = <<>>
        /\ frame'.seg.seq = connections[frame'.quad].recv.nxt
        /\ frame'.seg.ackn = connections[frame'.quad].send.nxt
        /\ Acceptable(connections[frame'.quad], frame'.seg))
       => /\ frame'.quad \in DOMAIN connections'
          /\ connections'[frame'.quad].state = "CloseWait"
          /\ connections'[frame'.quad].recv.nxt =
                 wrapping_add(connections[frame'.quad].recv.nxt, 1)
          /\ Len(sent') = 1 /\ sent'[1].ack /\ ~sent'[1].fin]_vars

FinProcessed ==
    /\ frame # NoFrame
    /\ pre # NoConn
    /\ pre.state = "Estab"
    /\ frame.seg.fin /\ frame.seg.ack /\ ~frame.seg.syn
    /\ frame.seg.seq = pre.recv.nxt
    /\ frame.seg.ackn = pre.send.nxt
    /\ Acceptable(pre, frame.seg)

C6_ReadAfterFinReturnsOk ==
    [][(/\ FinProcessed
        /\ ret' # ret
        /\ ret'.op = "read"
        /\ ret'.quad = frame.quad)
       => ret'.kind = "Ok"]_vars

(***************************************************************************)
(* C7.  In Estab, an acceptable ACK+PSH segment with n payload bytes at    *)
(* SEG.SEQ = RCV.NXT is answered by a segment with seq = SND.NXT and       *)
(* ack = SEG.SEQ + n.                                                      *)
(***************************************************************************)
C7_DataIsAcknowledged ==
    [][(/\ PacketStep
        /\ frame'.quad \in DOMAIN connections
        /\ connections[frame'.quad].state = "Estab"
        /\ frame'.seg.ack /\ frame'.seg.psh
        /\ ~frame'.seg.syn /\ ~frame'.seg.fin /\ ~frame'.seg.rst
        /\ frame'.seg.payload # <<>>
        /\ frame'.seg.seq = connections[frame'.quad].recv.nxt
        /\ frame'.seg.ackn = connections[frame'.quad].send.nxt
        /\ Acceptable(connections[frame'.quad], frame'.seg))
       => /\ Len(sent') = 1
          /\ sent'[1].seq = connections[frame'.quad].send.nxt
          /\ sent'[1].ackn = wrapping_add(frame'.seg.seq, Len(frame'.seg.payload))]_vars

(***************************************************************************)
(* C8.  In Estab the payload of an acceptable segment is appended to inbuf *)
(* and READ is reported (the receive condition is notified), with or       *)
(* without PSH.                                                            *)
(***************************************************************************)
C8_PayloadAppendedWithoutPsh ==
    [][(/\ PacketStep
        /\ frame'.quad \in DOMAIN connections
        /\ connections[frame'.quad].state = "Estab"
        /\ frame'.seg.ack
        /\ ~frame'.seg.syn /\ ~frame'.seg.fin /\ ~frame'.seg.rst
        /\ frame'.seg.payload # <<>>
        /\ frame'.seg.seq = connections[frame'.quad].recv.nxt
        /\ frame'.seg.ackn = connections[frame'.quad].send.nxt
        /\ Acceptable(connections[frame'.quad], frame'.seg))
       => /\ frame'.quad \in DOMAIN connections'
          /\ connections'[frame'.quad].inbuf.elems =
                 connections[frame'.quad].inbuf.elems \o frame'.seg.payload
          /\ pkt' = "notify_receive"]_vars

(***************************************************************************)
(* C9.  With inbuf = b1..bm (m > 0), read with a buffer of k > 0 bytes     *)
(* returns n = min(k, m) and the bytes b1..bn, and leaves b(n+1)..bm in    *)
(* inbuf, whatever the layout of the byte queue.                           *)
(***************************************************************************)
ReadCalled(t, quad, len) == StreamRead(t, quad, len) \/
    (StreamReadWake(t) /\ th[t].quad = quad /\ th[t].len = len)

C9_ReadReturnsQueueHead ==
    [][\A t \in Threads, quad \in Quads, len \in ReadLens :
        (/\ ReadCalled(t, quad, len)
         /\ quad \in DOMAIN connections
         /\ connections[quad].inbuf.elems # <<>>)
        => LET b == connections[quad].inbuf.elems
               n == Min2(len, Len(b))
           IN  /\ ret' = [op |-> "read", quad |-> quad, kind |-> "Ok", n |-> n,
                          bytes |-> SubSeq(b, 1, n)]
               /\ connections'[quad].inbuf.elems = SubSeq(b, n + 1, Len(b))]_vars

(***************************************************************************)
(* C10.  A segment that fails the acceptability test is discarded: the     *)
(* connection stays in the table with its state, SND.UNA, SND.NXT,         *)
(* SND.WND, RCV.NXT, inbuf and outbuf unchanged.                           *)
(***************************************************************************)
SameEndpointState(c, d) ==
    /\ c.state = d.state
    /\ c.send.una = d.send.una
    /\ c.send.nxt = d.send.nxt
    /\ c.send.wnd = d.send.wnd
    /\ c.recv.nxt = d.recv.nxt
    /\ c.inbuf.elems = d.inbuf.elems
    /\ c.outbuf = d.outbuf

EmptyAckOf(c) ==
    [syn |-> FALSE, ack |-> TRUE, fin |-> FALSE, seq |-> c.send.nxt,
     ackn |-> c.recv.nxt, wnd |-> c.tcphdr.window_size, payload |-> <<>>]

C11_UnacceptableSegmentIsAcked ==
    [][(/\ PacketStep
        /\ frame'.quad \in DOMAIN connections
        /\ connections[frame'.quad].state # "SynSent"
        /\ ~Acceptable(connections[frame'.quad], frame'.seg))
       => IF frame'.seg.rst THEN sent' = <<>>
          ELSE sent' = <<EmptyAckOf(connections[frame'.quad])>>]_vars

(***************************************************************************)
(* C12.  Stream::shutdown, or the drop of a Stream, on a connection in     *)
(* Estab queues a FIN and moves the connection to FinWait1, and the call   *)
(* returns normally.                                                       *)
(***************************************************************************)
StreamClosed(quad) ==
    \/ StreamDrop(quad)
    \/ \E t \in Threads : StreamShutdown(t, quad)

C12_CloseQueuesFin ==
    [][\A quad \in Quads :
        (/\ StreamClosed(quad)
         /\ quad \in DOMAIN connections
         /\ connections[quad].state = "Estab")
        => /\ connections'[quad].state = "FinWait1"
           /\ connections'[quad].tcphdr.fin
           /\ \A t \in Threads : th'[t].pc # "panicked"]_vars

(***************************************************************************)
(* C13.  connect emits the initial SYN (seq = ISS, no ACK) before it       *)
(* blocks or returns, and the thread blocked in connect is woken once the  *)
(* packet thread has taken its connection from SynSent to Estab.  Stated   *)
(* on the connect step: when it ends, with the thread blocked or returned, *)
(* exactly the SYN has been handed to the tunnel.                          *)
(***************************************************************************)
InitialSyn(seg) ==
    /\ seg.syn /\ ~seg.fin
    /\ seg.seq = ISS
    /\ seg.payload = <<>>

C13_ConnectSendsSyn ==
    [][\A t \in Threads, remote \in Remotes :
        (Connect(t, remote) /\ ConnectQuad(remote) \notin DOMAIN connections)
        => (Len(sent') = 1 /\ InitialSyn(sent'[1]))]_vars

(***************************************************************************)
(* C14.  After the Tcp handle is dropped (terminate is set), the packet    *)
(* thread eventually leaves packet_loop, so the join in the drop returns.  *)
(* The packet thread is gone when it has exited or panicked.               *)
(***************************************************************************)
PacketThreadGone == pkt \in {"exited", "panicked"}

C14_PacketThreadExits == terminate ~> PacketThreadGone

(***************************************************************************)
(* C15.  A Listener drop completes whether or not a SYN for its port was   *)
(* queued before it: the port leaves the pending map and no thread dies    *)
(* holding the manager mutex, so the packet thread keeps handling frames.  *)
(***************************************************************************)
C15_ListenerDropCompletes ==
    [][\A port \in Ports :
        ListenerDrop(port) => (port \notin DOMAIN pending' /\ ~poisoned')]_vars

C17_BuffersBounded ==
    \A quad \in DOMAIN connections :
        /\ Len(connections[quad].outbuf) <= TRANSMISSION_QLEN_SIZE
        /\ Len(connections[quad].inbuf.elems) <= connections[quad].recv.wnd

(***************************************************************************)
(* C18.  No wake-up is lost between the packet thread and accept: when a   *)
(* Quad is queued for port p and a thread is blocked in accept on p, that  *)
(* accept call eventually returns a Stream, under fair scheduling.         *)
(***************************************************************************)
AcceptOwed(t, port) ==
    /\ th[t].pc = "accept"
    /\ th[t].port = port
    /\ port \in DOMAIN pending
    /\ pending[port] # <<>>

AcceptReturned(t) == th[t] = Idle /\ ret.op = "accept"

C18_AcceptEventuallyReturns ==
    \A t \in Threads, port \in Ports :
        AcceptOwed(t, port) ~> AcceptReturned(t)

\* the same while the manager mutex is not poisoned
AcceptReturnsUnlessPoisoned ==
    \A t \in Threads, port \in Ports :
        AcceptOwed(t, port) ~> (AcceptReturned(t) \/ poisoned)

(***************************************************************************)
(* C19.  After Stream::write has queued bytes in outbuf of an established  *)
(* connection, with fair scheduling and a peer that sends acceptable ACK   *)
(* segments, outbuf eventually becomes empty and a Stream::flush call      *)
(* blocked on that stream eventually returns Ok.                           *)
(***************************************************************************)
FlushBlocked(t, quad) ==
    /\ th[t].pc = "flush"
    /\ th[t].quad = quad
    /\ quad \in DOMAIN connections
    /\ connections[quad].state = "Estab"
    /\ connections[quad].outbuf # <<>>

FlushReturned(t) == th[t] = Idle /\ ret.op = "flush" /\ ret.kind = "Ok"

C19_FlushEventuallyReturns ==
    \A t \in Threads, quad \in Quads \cup ConnectQuads :
        FlushBlocked(t, quad) ~> FlushReturned(t)

\* no step that leaves the mutex usable takes a byte out of an outbuf
OutbufNeverDrains ==
    [][~poisoned' =>
         \A quad \in DOMAIN connections \cap DOMAIN connections' :
             Len(connections'[quad].outbuf) >= Len(connections[quad].outbuf)]_vars

\* and a flush that has blocked does not return Ok
BlockedFlushStaysBlocked ==
    [][\A t \in Threads : th[t].pc = "flush" => ~FlushReturned(t)']_vars

(***************************************************************************)
(* C20.  For a connection in Estab, FinWait1, FinWait2, CloseWait or       *)
(* Closing with (SND.NXT - SND.UNA) mod 2^32 <= 2^31, processing an        *)
(* acceptable ACK segment sets SND.UNA to SEG.ACK iff SEG.ACK lies in the  *)
(* modular interval (SND.UNA, SND.NXT], also when the interval wraps       *)
(* through 0; and is_in_range_wrap is true exactly when its middle         *)
(* argument lies strictly on the forward arc from start to end, false when *)
(* start = end.  Both intervals are stated on distances along the circle.  *)
(***************************************************************************)
\* x is strictly between start and end, going forward from start
ForwardArc(start, x, end) ==
    /\ x # start
    /\ ULt(USub(x, start), USub(end, start))

\* ack is in (una, nxt], going forward from una
InSendInterval(una, ack, nxt) ==
    /\ ack # una
    /\ ULe(USub(ack, una), USub(nxt, una))

AckProcessed ==
    /\ frame # NoFrame
    /\ connections # <<>>
    /\ pre.state \in {"Estab", "FinWait1", "FinWait2", "CloseWait", "Closing"}
    /\ ULe(USub(pre.send.nxt, pre.send.una), Hex_80000000)
    /\ Acceptable(pre, frame.seg)
    /\ frame.seg.ack
    /\ ~frame.seg.syn

C20_AckAdvancesSndUna ==
    /\ AckProcessed =>
         connections[frame.quad].send.una =
            IF InSendInterval(pre.send.una, frame.seg.ackn, pre.send.nxt)
            THEN frame.seg.ackn ELSE pre.send.una
    /\ ret.op = "is_in_range_wrap" =>
         ret.value = ForwardArc(ret.start, ret.x, ret.end)

\* SND.UNA = 0xFFFFFF00, SND.NXT = 0x100 and ACK = 0x50: SND.UNA advanced
C20_Witness ==
    /\ AckProcessed
    /\ pre.send.una = Hex_FFFFFF00
    /\ pre.send.nxt = 256
    /\ frame.seg.ackn = 80
    /\ connections[frame.quad].send.una = 80

\* the same window and ACK = 0xFFFFFE00: SND.UNA left alone
C20_WrapDuplicate ==
    /\ AckProcessed
    /\ pre.send.una = Hex_FFFFFF00
    /\ pre.send.nxt = 256
    /\ frame.seg.ackn = Hex_FFFFFE00
    /\ connections[frame.quad].send.una = Hex_FFFFFF00

\* is_in_range_wrap on a range through 0, and on an empty range
C20_RangeThroughZero ==
    /\ ret.op = "is_in_range_wrap"
    /\ ULt(ret.end, ret.start)
    /\ ret.value

C20_RangeEmpty ==
    /\ ret.op = "is_in_range_wrap"
    /\ ret.start = ret.end
    /\ ~ret.value

(***************************************************************************)
(* C21.  For every received segment, RCV.NXT after processing is RCV.NXT   *)
(* before plus the in-window payload bytes consumed, plus 1 for a consumed *)
(* SYN or FIN: it never moves backwards and never skips sequence numbers   *)
(* that were not received.  Stated as the bound the claim implies: RCV.NXT *)
(* advances by no more than the part of the segment that starts at         *)
(* RCV.NXT.                                                                *)
(***************************************************************************)
\* the sequence numbers of seg from RCV.NXT on, when seg reaches RCV.NXT
Contiguous(c, seg) ==
    LET behind == USub(c.recv.nxt, seg.seq)
    IN  IF ULe(behind, seg_len(seg)) THEN seg_len(seg) - behind ELSE 0

C21_RcvNxtNeverSkips ==
    [][(/\ PacketStep
        /\ frame'.quad \in DOMAIN connections
        /\ frame'.quad \in DOMAIN connections')
       => ULe(USub(connections'[frame'.quad].recv.nxt,
                   connections[frame'.quad].recv.nxt),
              Contiguous(connections[frame'.quad], frame'.seg))]_vars

(***************************************************************************)
(* C22.  In every reachable state of every connection the unacknowledged   *)
(* sequence space satisfies (SND.NXT - SND.UNA) mod 2^32 <= 2^31: SND.UNA  *)
(* never passes SND.NXT and SND.NXT never runs more than half the sequence *)
(* space ahead of SND.UNA.  An invariant is kept by every step taken from  *)
(* a state that satisfies it: that is what is stated, for on_packet on a   *)
(* connection in Estab.                                                    *)
(***************************************************************************)
SendWindowBounded(c) == ULe(USub(c.send.nxt, c.send.una), Hex_80000000)

C22_SendWindowStaysBounded ==
    (/\ frame # NoFrame
     /\ connections # <<>>
     /\ pre.state = "Estab"
     /\ SendWindowBounded(pre))
    => SendWindowBounded(connections[frame.quad])

\* within MaxFrames frames of a passive open the bound is not reached
SendWindowBoundedSoFar ==
    \A quad \in DOMAIN connections : SendWindowBounded(connections[quad])

(***************************************************************************)
(* C23.  For SND.UNA, SND.NXT with (SND.NXT - SND.UNA) mod 2^32 <= 2^31    *)
(* and SEG.ACK outside (SND.UNA, SND.NXT], an acceptable segment takes the *)
(* emit-ACK-and-return path iff SEG.ACK acknowledges something not yet     *)
(* sent; a SEG.ACK in the acknowledged region, SEG.ACK = SND.UNA included, *)
(* is a duplicate and the rest of the segment is processed.  A segment     *)
(* that occupies sequence space shows which path it took: processing ends  *)
(* by setting RCV.NXT to the end of the segment, the return leaves it.     *)
(***************************************************************************)
\* ack is outside (una, nxt] and nearer ahead of nxt than behind una
NotYetSent(una, ack, nxt) ==
    /\ ~InSendInterval(una, ack, nxt)
    /\ ack # una
    /\ ULt(USub(ack, nxt), USub(una, ack))

SegmentProcessed ==
    connections[frame.quad].recv.nxt =
        wrapping_add(frame.seg.seq, seg_len(frame.seg))

C23_OnlyUnsentAckReturnsEarly ==
    (/\ AckProcessed
     /\ seg_len(frame.seg) > 0
     /\ frame.seg.seq = pre.recv.nxt
     /\ ~InSendInterval(pre.send.una, frame.seg.ackn, pre.send.nxt))
    => (SegmentProcessed <=>
          ~NotYetSent(pre.send.una, frame.seg.ackn, pre.send.nxt))

\* the same for a segment that acknowledges SND.UNA again, in Estab
DuplicateOfSndUnaProcessed ==
    (/\ AckProcessed
     /\ pre.state = "Estab"
     /\ seg_len(frame.seg) > 0
     /\ frame.seg.seq = pre.recv.nxt
     /\ frame.seg.ackn = pre.send.una)
    => SegmentProcessed

(***************************************************************************)
(* C24.  After every segment emission (from accept, from the SynSent       *)
(* branch, from any path of on_packet) all flag bits of the cached TCP     *)
(* header are clear, so that the flags of an emitted segment are set only  *)
(* by the step that emits it; in particular the only segment carrying SYN  *)
(* that a passively opened connection emits is the SYN+ACK of accept.      *)
(***************************************************************************)
FlagsClear(c) == ~c.tcphdr.syn /\ ~c.tcphdr.ack /\ ~c.tcphdr.fin

\* a segment of the connection found in the table carries no SYN
OnlyAcceptEmitsSyn ==
    [][(/\ PacketStep
        /\ frame'.quad \in Quads
        /\ frame'.quad \in DOMAIN connections)
       => \A i \in 1..Len(sent') : ~sent'[i].syn]_vars

C24_FlagsClearAfterEmission ==
    /\ [][(/\ PacketStep
           /\ sent' # <<>>
           /\ frame'.quad \in DOMAIN connections')
          => FlagsClear(connections'[frame'.quad])]_vars
    /\ OnlyAcceptEmitsSyn

(***************************************************************************)
(* C25.  In every reachable state each Quad in a port's pending queue is a *)
(* key of the connection table, so that the Stream returned by             *)
(* Listener::accept refers to an existing connection when accept returns.  *)
(***************************************************************************)
C25_PendingQuadsAreConnections ==
    \A port \in DOMAIN pending :
        \A i \in 1..Len(pending[port]) : pending[port][i] \in DOMAIN connections

(***************************************************************************)
(* C26.  A passively opened connection is in Estab or a later state only   *)
(* if the peer has acknowledged its SYN: in every reachable state with     *)
(* state not in {SynRcvd, SynSent}, SND.UNA # ISS.                         *)
(***************************************************************************)
C26_EstablishedOnlyAfterSynAcked ==
    \A quad \in Quads \cap DOMAIN connections :
        connections[quad].state \notin {"SynRcvd", "SynSent"}
            => connections[quad].send.una # connections[quad].send.iss

(***************************************************************************)
(* C27.  A Stream is bound to one connection incarnation: once the         *)
(* connection under its Quad has been removed, every later read, write or  *)
(* flush on it returns ConnectionAborted, also when a fresh SYN to the     *)
(* port creates a new connection with the same Quad; and two Streams never *)
(* operate on the same Connection.  read, write and flush return           *)
(* ConnectionAborted exactly when the Quad is not a key of the table       *)
(* (lib.rs:312, 350, 379), so the first part says that the Quad of a       *)
(* Stream, once out of the table, does not come back while the Stream      *)
(* exists.                                                                 *)
(***************************************************************************)
\* accept pops the last Quad of its port's queue
AcceptPops(port, quad) ==
    /\ port \in DOMAIN pending
    /\ port \in DOMAIN pending'
    /\ pending[port] # <<>>
    /\ pending'[port] = SubSeq(pending[port], 1, Len(pending[port]) - 1)
    /\ quad = pending[port][Len(pending[port])]

\* accept never returns a Stream for a Quad that a Stream exists for
OneStreamPerConnection ==
    [][\A port \in Ports, quad \in Quads :
         AcceptPops(port, quad) => quad \notin streams]_vars

C27_StreamBoundToIncarnation ==
    /\ [][\A quad \in streams :
            (quad \notin DOMAIN connections /\ quad \in streams')
                => quad \notin DOMAIN connections']_vars
    /\ OneStreamPerConnection

(***************************************************************************)
(* C28.  Every payload byte placed in a segment emitted for a connection   *)
(* is a byte the local user queued with Stream::write on that connection,  *)
(* emitted in queue order; payload received from the peer is never placed  *)
(* in an outgoing segment and never advances SND.NXT.  The bytes queued    *)
(* and not yet sent are outbuf: a segment sent while a frame is handled    *)
(* carries a prefix of it, and SND.NXT advances by those bytes and by one  *)
(* for a FIN.                                                              *)
(***************************************************************************)
IsPrefix(s, q) == Len(s) <= Len(q) /\ s = SubSeq(q, 1, Len(s))

C28_OnlyQueuedBytesAreSent ==
    [][(/\ PacketStep
        /\ frame'.quad \in DOMAIN connections)
       => /\ \A i \in 1..Len(sent') :
               IsPrefix(sent'[i].payload, connections[frame'.quad].outbuf)
          /\ frame'.quad \in DOMAIN connections' =>
               ULe(USub(connections'[frame'.quad].send.nxt,
                        connections[frame'.quad].send.nxt),
                   Len(connections[frame'.quad].outbuf) + 1)]_vars

=============================================================================
